---- MODULE Spec2Model ----
(***************************************************************************)
(* Model of src/app.py: a Flask microservice that keeps image blobs in a   *)
(* storage bucket and their metadata in the table `images`.  Each of the   *)
(* four handlers (upload_image, list_images, update_image, delete_image)   *)
(* is a linear sequence of remote calls; a step of the model is one remote *)
(* call of one request, so that requests interleave between calls and a    *)
(* call may raise.  A call that raises is modelled as having had no effect *)
(* on the backend.                                                         *)
(***************************************************************************)
EXTENDS Integers, Sequences, FiniteSets, TLC

(***************************************************************************)
(* Bounds of the model.                                                    *)
(***************************************************************************)
\* number of request slots (threads of the host serving requests)
NumProcs == 2
\* largest id the table's AUTO_INCREMENT hands out
MaxId == 2
\* number of requests the service receives in one behaviour
MaxRequests == 2
\* number of images already stored when the service starts
MaxInitialImages == 1

Procs == 1..NumProcs
Ids == 1..MaxId

(***************************************************************************)
(* Inputs: the multipart file parts a client may send and the values of    *)
(* the Accept header.  Two parts share the filename "cat.png".             *)
(***************************************************************************)
Files ==
    { [filename |-> "cat.png", content |-> "bytes-1", content_type |-> "image/png",  content_length |-> 1024],
      [filename |-> "cat.png", content |-> "bytes-2", content_type |-> "image/png",  content_length |-> 2048],
      [filename |-> "dog.jpg", content |-> "bytes-3", content_type |-> "image/jpeg", content_length |-> 0] }

\* request.files: a mapping that has the key "file" or not
NoFiles == <<>>
FilesWith(f) == [k \in {"file"} |-> f]
RequestFiles == {NoFiles} \cup {FilesWith(f) : f \in Files}

\* request.headers.get('Accept'): <<>> stands for None (header absent)
Accepts == { <<>>, <<"application/xml">>, <<"application/json">> }

BucketName == "bucket"

\* blob.public_url of the blob named key
PublicUrl(key) == "https://storage.googleapis.com/" \o BucketName \o "/" \o key

(***************************************************************************)
(* State.                                                                  *)
(***************************************************************************)
VARIABLES
    rows,     \* table images: a set of rows [id, filename, filesize_bytes, mime_type, access_url]
    nextId,   \* AUTO_INCREMENT counter of images.id
    blobs,    \* bucket: a set of objects [key, content, content_type, public]
    pc,       \* pc[p]: the remote call request p makes next, "idle" or "done"
    req,      \* req[p]: [op, image_id, files] of the request in slot p
    old,      \* old[p]: result of cursor.fetchone(): <<>> (None) or <<[filename]>>
    calls,    \* calls[p]: the remote calls request p has made, in order
    conn,     \* number of database connections opened and not closed
    served,   \* number of requests received so far
    resp,     \* resp[p]: <<>> or <<response>> of the finished request
    pre       \* pre[p]: rows and blobs as they were when request p arrived

vars == <<rows, nextId, blobs, pc, req, old, calls, conn, served, resp, pre>>

(***************************************************************************)
(* The two backends.                                                       *)
(***************************************************************************)
\* bucket.blob(key) resolved against the bucket: the objects stored under key
BlobsAt(bs, key) == {b \in bs : b.key = key}

\* blob.upload_from_file(file, content_type=...): writes (or overwrites) the
\* object; the new object is not yet publicly readable
UploadFromFile(bs, file) ==
    (bs \ BlobsAt(bs, file.filename))
        \cup {[key |-> file.filename, content |-> file.content,
               content_type |-> file.content_type, public |-> FALSE]}

\* blob.make_public() on an existing object
MakePublic(bs, key) ==
    {IF b.key = key THEN [b EXCEPT !.public = TRUE] ELSE b : b \in bs}

\* blob.delete() on an existing object
DeleteBlob(bs, key) == bs \ BlobsAt(bs, key)

\* an anonymous GET of url: the contents it returns (none or one)
Fetch(bs, url) == {b.content : b \in {x \in bs : PublicUrl(x.key) = url /\ x.public}}

\* SELECT ... FROM images WHERE id = image_id
RowsWithId(rs, id) == {r \in rs : r.id = id}

\* cursor.fetchone() of SELECT filename FROM images WHERE id = %s
FetchOneFilename(rs, id) ==
    IF RowsWithId(rs, id) = {} THEN <<>>
    ELSE <<[filename |-> (CHOOSE r \in RowsWithId(rs, id) : TRUE).filename]>>

\* INSERT INTO images (filename, filesize_bytes, mime_type, access_url) VALUES (...)
InsertRow(rs, id, file, url) ==
    rs \cup {[id |-> id, filename |-> file.filename,
              filesize_bytes |-> file.content_length,
              mime_type |-> file.content_type, access_url |-> url]}

\* the UPDATE without its WHERE clause
UpdateRow_NoWhere(rs, id, file, url) ==
    {[r EXCEPT !.filename = file.filename,
               !.filesize_bytes = file.content_length,
               !.mime_type = file.content_type,
               !.access_url = url] : r \in rs}

\* UPDATE images SET filename, filesize_bytes, mime_type, access_url WHERE id = %s
UpdateRow(rs, id, file, url) ==
    {IF r.id = id
       THEN [r EXCEPT !.filename = file.filename,
                      !.filesize_bytes = file.content_length,
                      !.mime_type = file.content_type,
                      !.access_url = url]
       ELSE r : r \in rs}

\* DELETE FROM images WHERE id = %s
DeleteRow(rs, id) == rs \ RowsWithId(rs, id)

\* cursor.fetchall() of SELECT * FROM images: the rows in primary-key order
RECURSIVE FetchAll(_)
FetchAll(rs) ==
    IF rs = {} THEN <<>>
    ELSE LET first == CHOOSE r \in rs : \A q \in rs : r.id <= q.id
         IN  <<first>> \o FetchAll(rs \ {first})

(***************************************************************************)
(* Response formatter.  A payload is the sequence of the fields of the     *)
(* dict a handler passes to format_response, in the order written.         *)
(***************************************************************************)
Field(k, v) == [key |-> k, isList |-> FALSE, value |-> v, items |-> <<>>]
ListField(k, items) == [key |-> k, isList |-> TRUE, value |-> "", items |-> items]

\* dicttoxml of one row dict: one child element per column, values as text
XmlItem(row) ==
    << [tag |-> "id",             text |-> ToString(row.id)],
       [tag |-> "filename",       text |-> row.filename],
       [tag |-> "filesize_bytes", text |-> ToString(row.filesize_bytes)],
       [tag |-> "mime_type",      text |-> row.mime_type],
       [tag |-> "access_url",     text |-> row.access_url] >>

\* dicttoxml of one top-level key: a child element named after the key; a
\* list becomes a container element holding one <item> per entry
XmlElement(f) ==
    [tag |-> f.key,
     text |-> IF f.isList THEN "" ELSE f.value,
     children |-> IF f.isList
                    THEN [i \in DOMAIN f.items |-> [tag |-> "item", children |-> XmlItem(f.items[i])]]
                    ELSE <<>>]

\* dicttoxml(data, custom_root='response', attr_type=False)
DictToXml(data) ==
    [root |-> "response", children |-> [i \in DOMAIN data |-> XmlElement(data[i])], members |-> {}]

\* jsonify(data): a JSON object, i.e. an unordered set of members
Jsonify(data) ==
    [root |-> "", children |-> <<>>, members |-> {data[i] : i \in DOMAIN data}]

\* a formatter that answers XML to every Accept header but application/json
FormatResponse_UnlessJson(accept, data, code) ==
    IF accept # <<"application/json">>
      THEN [status |-> code, content_type |-> "application/xml", body |-> DictToXml(data)]
      ELSE [status |-> code, content_type |-> "application/json", body |-> Jsonify(data)]

\* format_response(data, code) for a request whose Accept header is accept
FormatResponse(accept, data, code) ==
    IF accept = <<"application/xml">>
      THEN [status |-> code, content_type |-> "application/xml", body |-> DictToXml(data)]
      ELSE [status |-> code, content_type |-> "application/json", body |-> Jsonify(data)]

\* an exception leaving a handler: the framework's error response
UnhandledError ==
    [via |-> "exception", accept |-> <<>>, data |-> <<>>, code |-> 500,
     status |-> 500, content_type |-> "text/html",
     body |-> [root |-> "", children |-> <<>>, members |-> {}]]

(***************************************************************************)
(* Requests.                                                               *)
(***************************************************************************)
NoReq == [op |-> "none", image_id |-> 0, files |-> NoFiles]
NoPre == [rows |-> {}, blobs |-> {}]

InFlight(p) == pc[p] \notin {"idle", "done"}

\* uploads that may still insert a row; an upload is admitted only while the
\* ids they will take stay within MaxId
PendingInserts == Cardinality({q \in Procs : req[q].op = "upload_image" /\ InFlight(q)})

\* the table and the bucket after the files fs were uploaded one after the
\* other by earlier runs of the service
RECURSIVE StoredRows(_)
StoredRows(fs) ==
    IF fs = <<>> THEN {}
    ELSE InsertRow(StoredRows(SubSeq(fs, 1, Len(fs) - 1)), Len(fs), fs[Len(fs)],
                   PublicUrl(fs[Len(fs)].filename))

RECURSIVE StoredBlobs(_)
StoredBlobs(fs) ==
    IF fs = <<>> THEN {}
    ELSE MakePublic(UploadFromFile(StoredBlobs(SubSeq(fs, 1, Len(fs) - 1)), fs[Len(fs)]),
                    fs[Len(fs)].filename)

InitialImages == UNION {[1..n -> Files] : n \in 0..MaxInitialImages}

Init ==
    /\ \E fs \in InitialImages :
         /\ rows = StoredRows(fs)
         /\ blobs = StoredBlobs(fs)
         /\ nextId = Len(fs) + 1
    /\ pc = [p \in Procs |-> "idle"]
    /\ req = [p \in Procs |-> NoReq]
    /\ old = [p \in Procs |-> <<>>]
    /\ calls = [p \in Procs |-> <<>>]
    /\ conn = 0
    /\ served = 0
    /\ resp = [p \in Procs |-> <<>>]
    /\ pre = [p \in Procs |-> NoPre]

\* a request arrives and is served in slot p, the lowest free slot
Arrive(p, r) ==
    /\ pc[p] = "idle"
    /\ \A q \in Procs : q < p => pc[q] # "idle"
    /\ served < MaxRequests
    /\ served' = served + 1
    /\ req' = [req EXCEPT ![p] = r]
    /\ pre' = [pre EXCEPT ![p] = [rows |-> rows, blobs |-> blobs]]

\* the handler returns format_response(data, code); the response is kept
\* together with the Accept header of the request and the arguments passed
Respond(p, data, code) ==
    /\ \E accept \in Accepts :
         LET out == FormatResponse(accept, data, code)
         IN  resp' = [resp EXCEPT ![p] =
                        <<[via |-> "format_response", accept |-> accept, data |-> data,
                           code |-> code, status |-> out.status,
                           content_type |-> out.content_type, body |-> out.body]>>]
    /\ pc' = [pc EXCEPT ![p] = "done"]

\* an exception propagates out of the handler
Propagate(p) ==
    /\ resp' = [resp EXCEPT ![p] = <<UnhandledError>>]
    /\ pc' = [pc EXCEPT ![p] = "done"]

Called(p, c) == calls' = [calls EXCEPT ![p] = Append(@, c)]

File(p) == req[p].files["file"]

(***************************************************************************)
(* upload_image: POST /images                                              *)
(***************************************************************************)
\* upload_image answering a missing file part with the default status code
UploadImageStart_DefaultCode(p) ==
    /\ \E files \in RequestFiles :
         /\ "file" \in DOMAIN files => nextId + PendingInserts <= MaxId
         /\ Arrive(p, [op |-> "upload_image", image_id |-> 0, files |-> files])
         /\ IF "file" \notin DOMAIN files
              THEN Respond(p, <<Field("error", "No se encontro el archivo")>>, 200)
              ELSE pc' = [pc EXCEPT ![p] = "upload"] /\ UNCHANGED resp
    /\ UNCHANGED <<rows, nextId, blobs, old, calls, conn>>

UploadImageStart(p) ==
    /\ \E files \in RequestFiles :
         /\ "file" \in DOMAIN files => nextId + PendingInserts <= MaxId
         /\ Arrive(p, [op |-> "upload_image", image_id |-> 0, files |-> files])
         /\ IF "file" \notin DOMAIN files
              THEN Respond(p, <<Field("error", "No se encontro el archivo")>>, 400)
              ELSE pc' = [pc EXCEPT ![p] = "upload"] /\ UNCHANGED resp
    /\ UNCHANGED <<rows, nextId, blobs, old, calls, conn>>

UploadImageUpload(p) ==
    /\ pc[p] = "upload" /\ req[p].op = "upload_image"
    /\ blobs' = UploadFromFile(blobs, File(p))
    /\ Called(p, "upload")
    /\ pc' = [pc EXCEPT ![p] = "make_public"]
    /\ UNCHANGED <<rows, nextId, req, old, conn, resp, pre, served>>

UploadImageMakePublic(p) ==
    /\ pc[p] = "make_public" /\ req[p].op = "upload_image"
    /\ Called(p, "make_public")
    /\ IF BlobsAt(blobs, File(p).filename) = {}
         THEN Propagate(p) /\ UNCHANGED blobs
         ELSE /\ blobs' = MakePublic(blobs, File(p).filename)
              /\ pc' = [pc EXCEPT ![p] = "insert"]
              /\ UNCHANGED resp
    /\ UNCHANGED <<rows, nextId, req, old, conn, pre, served>>

\* upload_image storing the object name where the URL belongs
UploadImageInsert_KeyAsUrl(p) ==
    /\ pc[p] = "insert" /\ req[p].op = "upload_image"
    /\ LET access_url == File(p).filename
       IN  /\ rows' = InsertRow(rows, nextId, File(p), access_url)
           /\ nextId' = nextId + 1
           /\ Called(p, "insert")
           /\ Respond(p, << Field("message", "Imagen subida correctamente"),
                            Field("filename", File(p).filename),
                            Field("access_url", access_url) >>, 200)
    /\ UNCHANGED <<blobs, req, old, conn, pre, served>>

UploadImageInsert(p) ==
    /\ pc[p] = "insert" /\ req[p].op = "upload_image"
    /\ LET access_url == PublicUrl(File(p).filename)
       IN  /\ rows' = InsertRow(rows, nextId, File(p), access_url)
           /\ nextId' = nextId + 1
           /\ Called(p, "insert")
           /\ Respond(p, << Field("message", "Imagen subida correctamente"),
                            Field("filename", File(p).filename),
                            Field("access_url", access_url) >>, 200)
    /\ UNCHANGED <<blobs, req, old, conn, pre, served>>

\* upload_image deleting the blob it uploaded when a later call raises
UploadImageRaise_Cleanup(p) ==
    /\ pc[p] \in {"upload", "make_public", "insert"} /\ req[p].op = "upload_image"
    /\ Called(p, pc[p])
    /\ Propagate(p)
    /\ blobs' = IF pc[p] = "insert" THEN DeleteBlob(blobs, File(p).filename) ELSE blobs
    /\ \E opened \in {0, 1} :
         conn' = IF pc[p] = "insert" THEN conn + opened ELSE conn
    /\ UNCHANGED <<rows, nextId, req, old, pre, served>>

\* a remote call of upload_image raises; the connection is left open when
\* the call that raised came after get_db_connection()
UploadImageRaise(p) ==
    /\ pc[p] \in {"upload", "make_public", "insert"} /\ req[p].op = "upload_image"
    /\ Called(p, pc[p])
    /\ Propagate(p)
    /\ \E opened \in {0, 1} :
         conn' = IF pc[p] = "insert" THEN conn + opened ELSE conn
    /\ UNCHANGED <<rows, nextId, blobs, req, old, pre, served>>

(***************************************************************************)
(* list_images: GET /images                                                *)
(***************************************************************************)
ListImagesStart(p) ==
    /\ Arrive(p, [op |-> "list_images", image_id |-> 0, files |-> NoFiles])
    /\ pc' = [pc EXCEPT ![p] = "select_all"]
    /\ UNCHANGED <<rows, nextId, blobs, old, calls, conn, resp>>

ListImagesSelect(p) ==
    /\ pc[p] = "select_all" /\ req[p].op = "list_images"
    /\ Called(p, "select_all")
    /\ Respond(p, <<ListField("images", FetchAll(rows))>>, 200)
    /\ UNCHANGED <<rows, nextId, blobs, req, old, conn, pre, served>>

ListImagesRaise(p) ==
    /\ pc[p] = "select_all" /\ req[p].op = "list_images"
    /\ Called(p, pc[p])
    /\ Propagate(p)
    /\ \E opened \in {0, 1} : conn' = conn + opened
    /\ UNCHANGED <<rows, nextId, blobs, req, old, pre, served>>

(***************************************************************************)
(* update_image: PUT /images/<image_id>                                    *)
(***************************************************************************)
\* update_image that looks the row up before it tests the file part
UpdateImageStart_LookupFirst(p) ==
    \E image_id \in Ids, files \in RequestFiles :
        /\ Arrive(p, [op |-> "update_image", image_id |-> image_id, files |-> files])
        /\ IF "file" \in DOMAIN files
             THEN /\ pc' = [pc EXCEPT ![p] = "select"]
                  /\ UNCHANGED <<resp, calls, conn, old>>
             ELSE /\ Called(p, "select")
                  /\ conn' = conn + 1
                  /\ old' = [old EXCEPT ![p] = FetchOneFilename(rows, image_id)]
                  /\ IF FetchOneFilename(rows, image_id) = <<>>
                       THEN Respond(p, <<Field("error", "Imagen no encontrada")>>, 404)
                       ELSE Respond(p, <<Field("error", "No se encontro el archivo")>>, 400)
        /\ UNCHANGED <<rows, nextId, blobs>>

UpdateImageStart(p) ==
    /\ \E image_id \in Ids, files \in RequestFiles :
         /\ Arrive(p, [op |-> "update_image", image_id |-> image_id, files |-> files])
         /\ IF "file" \notin DOMAIN files
              THEN Respond(p, <<Field("error", "No se encontro el archivo")>>, 400)
              ELSE pc' = [pc EXCEPT ![p] = "select"] /\ UNCHANGED resp
    /\ UNCHANGED <<rows, nextId, blobs, old, calls, conn>>

\* update_image uploading the new blob before deleting the old one
UpdateImageSelect_UploadFirst(p) ==
    /\ pc[p] = "select" /\ req[p].op = "update_image"
    /\ conn' = conn + 1
    /\ Called(p, "select")
    /\ LET found == FetchOneFilename(rows, req[p].image_id)
       IN  /\ old' = [old EXCEPT ![p] = found]
           /\ IF found = <<>>
                THEN Respond(p, <<Field("error", "Imagen no encontrada")>>, 404)
                ELSE pc' = [pc EXCEPT ![p] = "upload"] /\ UNCHANGED resp
    /\ UNCHANGED <<rows, nextId, blobs, req, pre, served>>

\* the connection opened here is not closed on the 404 return
UpdateImageSelect(p) ==
    /\ pc[p] = "select" /\ req[p].op = "update_image"
    /\ conn' = conn + 1
    /\ Called(p, "select")
    /\ LET found == FetchOneFilename(rows, req[p].image_id)
       IN  /\ old' = [old EXCEPT ![p] = found]
           /\ IF found = <<>>
                THEN Respond(p, <<Field("error", "Imagen no encontrada")>>, 404)
                ELSE pc' = [pc EXCEPT ![p] = "blob_delete"] /\ UNCHANGED resp
    /\ UNCHANGED <<rows, nextId, blobs, req, pre, served>>

\* update_image that leaves the old blob in the bucket
UpdateImageDeleteOld_Keep(p) ==
    /\ pc[p] = "blob_delete" /\ req[p].op = "update_image"
    /\ Called(p, "blob_delete")
    /\ pc' = [pc EXCEPT ![p] = "upload"]
    /\ UNCHANGED <<rows, nextId, blobs, req, old, conn, resp, pre, served>>

\* old_blob.delete() raises NotFound when no object has that name
UpdateImageDeleteOld(p) ==
    /\ pc[p] = "blob_delete" /\ req[p].op = "update_image"
    /\ Called(p, "blob_delete")
    /\ IF BlobsAt(blobs, old[p][1].filename) = {}
         THEN Propagate(p) /\ UNCHANGED blobs
         ELSE /\ blobs' = DeleteBlob(blobs, old[p][1].filename)
              /\ pc' = [pc EXCEPT ![p] = "upload"]
              /\ UNCHANGED resp
    /\ UNCHANGED <<rows, nextId, req, old, conn, pre, served>>

UpdateImageUpload(p) ==
    /\ pc[p] = "upload" /\ req[p].op = "update_image"
    /\ blobs' = UploadFromFile(blobs, File(p))
    /\ Called(p, "upload")
    /\ pc' = [pc EXCEPT ![p] = "make_public"]
    /\ UNCHANGED <<rows, nextId, req, old, conn, resp, pre, served>>

UpdateImageMakePublic(p) ==
    /\ pc[p] = "make_public" /\ req[p].op = "update_image"
    /\ Called(p, "make_public")
    /\ IF BlobsAt(blobs, File(p).filename) = {}
         THEN Propagate(p) /\ UNCHANGED blobs
         ELSE /\ blobs' = MakePublic(blobs, File(p).filename)
              /\ pc' = [pc EXCEPT ![p] = "update"]
              /\ UNCHANGED resp
    /\ UNCHANGED <<rows, nextId, req, old, conn, pre, served>>

UpdateImageUpdate(p) ==
    /\ pc[p] = "update" /\ req[p].op = "update_image"
    /\ rows' = UpdateRow(rows, req[p].image_id, File(p), PublicUrl(File(p).filename))
    /\ Called(p, "update")
    /\ conn' = conn - 1
    /\ Respond(p, << Field("message", "Imagen actualizada correctamente"),
                     Field("new_url", PublicUrl(File(p).filename)) >>, 200)
    /\ UNCHANGED <<nextId, blobs, req, old, pre, served>>

\* update_image making a call that raised once more before giving up
UpdateImageRaise_Retry(p) ==
    /\ pc[p] \in {"select", "blob_delete", "upload", "make_public", "update"}
    /\ req[p].op = "update_image"
    /\ Called(p, pc[p])
    /\ IF \E i \in DOMAIN calls[p] : calls[p][i] = pc[p]
         THEN Propagate(p)
         ELSE UNCHANGED <<pc, resp>>
    /\ \E opened \in {0, 1} :
         conn' = IF pc[p] = "select" THEN conn + opened ELSE conn
    /\ UNCHANGED <<rows, nextId, blobs, req, old, pre, served>>

UpdateImageRaise(p) ==
    /\ pc[p] \in {"select", "blob_delete", "upload", "make_public", "update"}
    /\ req[p].op = "update_image"
    /\ Called(p, pc[p])
    /\ Propagate(p)
    /\ \E opened \in {0, 1} :
         conn' = IF pc[p] = "select" THEN conn + opened ELSE conn
    /\ UNCHANGED <<rows, nextId, blobs, req, old, pre, served>>

(***************************************************************************)
(* delete_image: DELETE /images/<image_id>                                 *)
(***************************************************************************)
DeleteImageStart(p) ==
    /\ \E image_id \in Ids :
         Arrive(p, [op |-> "delete_image", image_id |-> image_id, files |-> NoFiles])
    /\ pc' = [pc EXCEPT ![p] = "select"]
    /\ UNCHANGED <<rows, nextId, blobs, old, calls, conn, resp>>

\* delete_image without the check of the row found: img['filename'] raises
DeleteImageSelect_NoCheck(p) ==
    /\ pc[p] = "select" /\ req[p].op = "delete_image"
    /\ conn' = conn + 1
    /\ Called(p, "select")
    /\ LET found == FetchOneFilename(rows, req[p].image_id)
       IN  /\ old' = [old EXCEPT ![p] = found]
           /\ IF found = <<>>
                THEN Propagate(p)
                ELSE pc' = [pc EXCEPT ![p] = "blob_delete"] /\ UNCHANGED resp
    /\ UNCHANGED <<rows, nextId, blobs, req, pre, served>>

\* the connection opened here is not closed on the 404 return
DeleteImageSelect(p) ==
    /\ pc[p] = "select" /\ req[p].op = "delete_image"
    /\ conn' = conn + 1
    /\ Called(p, "select")
    /\ LET found == FetchOneFilename(rows, req[p].image_id)
       IN  /\ old' = [old EXCEPT ![p] = found]
           /\ IF found = <<>>
                THEN Respond(p, <<Field("error", "Imagen no encontrada")>>, 404)
                ELSE pc' = [pc EXCEPT ![p] = "blob_delete"] /\ UNCHANGED resp
    /\ UNCHANGED <<rows, nextId, blobs, req, pre, served>>

\* delete_image that takes a missing blob for deleted and goes on
DeleteImageDeleteBlob_Tolerant(p) ==
    /\ pc[p] = "blob_delete" /\ req[p].op = "delete_image"
    /\ Called(p, "blob_delete")
    /\ blobs' = DeleteBlob(blobs, old[p][1].filename)
    /\ pc' = [pc EXCEPT ![p] = "row_delete"]
    /\ UNCHANGED <<rows, nextId, req, old, conn, resp, pre, served>>

\* blob.delete() raises NotFound when no object has that name
DeleteImageDeleteBlob(p) ==
    /\ pc[p] = "blob_delete" /\ req[p].op = "delete_image"
    /\ Called(p, "blob_delete")
    /\ IF BlobsAt(blobs, old[p][1].filename) = {}
         THEN Propagate(p) /\ UNCHANGED blobs
         ELSE /\ blobs' = DeleteBlob(blobs, old[p][1].filename)
              /\ pc' = [pc EXCEPT ![p] = "row_delete"]
              /\ UNCHANGED resp
    /\ UNCHANGED <<rows, nextId, req, old, conn, pre, served>>

\* delete_image without conn.commit(): the DELETE is rolled back
DeleteImageDeleteRow_NoCommit(p) ==
    /\ pc[p] = "row_delete" /\ req[p].op = "delete_image"
    /\ rows' = rows
    /\ Called(p, "row_delete")
    /\ conn' = conn - 1
    /\ Respond(p, <<Field("message", "Imagen eliminada correctamente")>>, 200)
    /\ UNCHANGED <<nextId, blobs, req, old, pre, served>>

DeleteImageDeleteRow(p) ==
    /\ pc[p] = "row_delete" /\ req[p].op = "delete_image"
    /\ rows' = DeleteRow(rows, req[p].image_id)
    /\ Called(p, "row_delete")
    /\ conn' = conn - 1
    /\ Respond(p, <<Field("message", "Imagen eliminada correctamente")>>, 200)
    /\ UNCHANGED <<nextId, blobs, req, old, pre, served>>

DeleteImageRaise(p) ==
    /\ pc[p] \in {"select", "blob_delete", "row_delete"}
    /\ req[p].op = "delete_image"
    /\ Called(p, pc[p])
    /\ Propagate(p)
    /\ \E opened \in {0, 1} :
         conn' = IF pc[p] = "select" THEN conn + opened ELSE conn
    /\ UNCHANGED <<rows, nextId, blobs, req, old, pre, served>>

(***************************************************************************)
(* The response has been sent; the slot serves the next request.           *)
(***************************************************************************)
Return(p) ==
    /\ pc[p] = "done"
    /\ pc' = [pc EXCEPT ![p] = "idle"]
    /\ req' = [req EXCEPT ![p] = NoReq]
    /\ old' = [old EXCEPT ![p] = <<>>]
    /\ calls' = [calls EXCEPT ![p] = <<>>]
    /\ resp' = [resp EXCEPT ![p] = <<>>]
    /\ pre' = [pre EXCEPT ![p] = NoPre]
    /\ UNCHANGED <<rows, nextId, blobs, conn, served>>

(***************************************************************************)
(* Specifications.                                                         *)
(***************************************************************************)
Start(p) ==
    \/ UploadImageStart(p)
    \/ ListImagesStart(p)
    \/ UpdateImageStart(p)
    \/ DeleteImageStart(p)

\* a remote call of request p returns
Step(p) ==
    \/ UploadImageUpload(p)
    \/ UploadImageMakePublic(p)
    \/ UploadImageInsert(p)
    \/ ListImagesSelect(p)
    \/ UpdateImageSelect(p)
    \/ UpdateImageDeleteOld(p)
    \/ UpdateImageUpload(p)
    \/ UpdateImageMakePublic(p)
    \/ UpdateImageUpdate(p)
    \/ DeleteImageSelect(p)
    \/ DeleteImageDeleteBlob(p)
    \/ DeleteImageDeleteRow(p)

\* a remote call of request p raises
Raise(p) ==
    \/ UploadImageRaise(p)
    \/ ListImagesRaise(p)
    \/ UpdateImageRaise(p)
    \/ DeleteImageRaise(p)

Quiescent == \A p \in Procs : pc[p] = "idle"

\* concurrent requests, remote calls may raise.  Sending a response touches
\* no backend, so it is taken before any other request goes on.
NoneDone == \A q \in Procs : pc[q] # "done"

Next == \E p \in Procs : (NoneDone /\ (Start(p) \/ Step(p) \/ Raise(p))) \/ Return(p)

Spec == Init /\ [][Next]_vars

\* one request at a time, no remote call raises
NextSeq == \E p \in Procs : (Quiescent /\ Start(p)) \/ Step(p) \/ Return(p)

SpecSeq == Init /\ [][NextSeq]_vars

\* one request at a time, remote calls may raise
NextSeqRaise == \E p \in Procs : (Quiescent /\ Start(p)) \/ Step(p) \/ Raise(p) \/ Return(p)

SpecSeqRaise == Init /\ [][NextSeqRaise]_vars

\* concurrent requests, no remote call raises unless the state of the bucket
\* makes it raise; finished requests stay in their slots until answered
NextRace == \E p \in Procs : Start(p) \/ Step(p) \/ Return(p)

SpecRace == Init /\ [][NextRace]_vars

\* the host runs every handler on, and every remote call returns or raises
FairSpecSeqRaise == SpecSeqRaise /\ WF_vars(NextSeqRaise)

TypeOK ==
    /\ nextId \in 1..(MaxId + 1)
    /\ \A r \in rows : r.id \in 1..(nextId - 1)
    /\ conn \in 0..MaxRequests /\ served \in 0..MaxRequests
    /\ \A p \in Procs : Len(calls[p]) <= 5 /\ Len(resp[p]) <= 1 /\ Len(old[p]) <= 1

(***************************************************************************)
(* Vocabulary of the properties.                                           *)
(***************************************************************************)
Done(p) == pc[p] = "done"
Status(p) == resp[p][1].status
Succeeded(p, op) == Done(p) /\ req[p].op = op /\ Status(p) = 200

\* the row with the request's id before and after the request
RowBefore(p) == CHOOSE r \in RowsWithId(pre[p].rows, req[p].image_id) : TRUE
RowNow(p) == CHOOSE r \in RowsWithId(rows, req[p].image_id) : TRUE

\* the live blobs an anonymous client reaches from url
Reachable(bs, url) == {b \in bs : PublicUrl(b.key) = url /\ b.public}

\* the rows a List returns now
Listed == {FetchAll(rows)[i] : i \in DOMAIN FetchAll(rows)}

(***************************************************************************)
(* C1: whenever no request is in flight, every row has exactly one blob    *)
(* whose key is the row's filename and whose public address is the row's   *)
(* access_url (requests one at a time, no call raises).                    *)
(* Refuted: two rows may share a filename, and deleting one of them        *)
(* deletes the blob of the other.                                          *)
(***************************************************************************)
C1_RecordHasBlob ==
    Quiescent =>
        \A r \in rows :
            Cardinality({b \in blobs : b.key = r.filename /\ PublicUrl(b.key) = r.access_url}) = 1

(***************************************************************************)
(* C2: after a successful Create, a List holds exactly one row with the    *)
(* uploaded filename and mime type, and that row's access_url serves the   *)
(* uploaded content.  Refuted: uploading a filename that a row already     *)
(* uses adds a second row with that filename.                              *)
(***************************************************************************)
C2_ExactlyOneRecord ==
    \A p \in Procs :
        Succeeded(p, "upload_image") =>
            LET matching == {r \in Listed : /\ r.filename = File(p).filename
                                            /\ r.mime_type = File(p).content_type}
            IN  /\ Cardinality(matching) = 1
                /\ \A r \in matching : Fetch(blobs, r.access_url) = {File(p).content}

(***************************************************************************)
(* C3, as stated: after a successful Replace exactly one live blob is      *)
(* reachable from the row's access_url and no blob is stored under the     *)
(* row's previous filename, whatever the new filename.                     *)
(***************************************************************************)
C3_PreviousKeyGone ==
    \A p \in Procs :
        Succeeded(p, "update_image") =>
            /\ Cardinality(Reachable(blobs, RowNow(p).access_url)) = 1
            /\ BlobsAt(blobs, RowBefore(p).filename) = {}

(***************************************************************************)
(* C3, amended: after a successful Replace with no other request in        *)
(* flight, exactly one live blob is reachable from the row's access_url,   *)
(* it holds the uploaded content, and no blob is stored under the row's    *)
(* previous filename unless the new filename equals it.                    *)
(***************************************************************************)
C3_ReplaceLeavesOneBlob ==
    \A p \in Procs :
        Succeeded(p, "update_image") =>
            /\ Cardinality(Reachable(blobs, RowNow(p).access_url)) = 1
            /\ Fetch(blobs, RowNow(p).access_url) = {File(p).content}
            /\ RowBefore(p).filename # File(p).filename
                   => BlobsAt(blobs, RowBefore(p).filename) = {}

C3_Witness ==
    \E p \in Procs :
        /\ Succeeded(p, "update_image")
        /\ RowBefore(p).filename # File(p).filename

(***************************************************************************)
(* C4: after a successful Delete the row with that id is in no List and    *)
(* no blob is stored under the row's former filename.                      *)
(***************************************************************************)
C4_DeleteRemovesRowAndBlob ==
    \A p \in Procs :
        Succeeded(p, "delete_image") =>
            /\ \A r \in Listed : r.id # req[p].image_id
            /\ BlobsAt(blobs, RowBefore(p).filename) = {}

C4_Witness ==
    \E p \in Procs :
        /\ Succeeded(p, "delete_image")
        /\ RowsWithId(pre[p].rows, req[p].image_id) # {}
        /\ BlobsAt(pre[p].blobs, RowBefore(p).filename) # {}

(***************************************************************************)
(* C5: a Delete, or a Replace with a file part, whose id matches no row    *)
(* ends with 404 and leaves the table and the bucket as they were.         *)
(***************************************************************************)
UnknownId(p) ==
    /\ \/ req[p].op = "delete_image"
       \/ req[p].op = "update_image" /\ "file" \in DOMAIN req[p].files
    /\ RowsWithId(pre[p].rows, req[p].image_id) = {}

C5_UnknownIdIs404 ==
    \A p \in Procs :
        (Done(p) /\ UnknownId(p)) =>
            /\ Status(p) = 404
            /\ rows = pre[p].rows
            /\ blobs = pre[p].blobs

C5_Witness ==
    \E p \in Procs :
        /\ Done(p) /\ UnknownId(p) /\ req[p].op = "update_image"
        /\ blobs # {}

(***************************************************************************)
(* C6: a Create or Replace without a file part ends with 400, makes no     *)
(* remote call and leaves the table and the bucket as they were.           *)
(***************************************************************************)
MissingFile(p) ==
    /\ req[p].op \in {"upload_image", "update_image"}
    /\ "file" \notin DOMAIN req[p].files

C6_MissingFileIs400 ==
    \A p \in Procs :
        (pc[p] # "idle" /\ MissingFile(p)) =>
            /\ Done(p)
            /\ Status(p) = 400
            /\ calls[p] = <<>>
            /\ rows = pre[p].rows
            /\ blobs = pre[p].blobs

C6_Witness ==
    \E p \in Procs :
        /\ Done(p) /\ MissingFile(p) /\ req[p].op = "update_image"
        /\ RowsWithId(rows, req[p].image_id) # {}

(***************************************************************************)
(* C7: every request ends, with status 200, 404, 400 or 500, after at most *)
(* four adapter calls made in the order select, blob delete, blob put, row *)
(* write, each at most once.  upload_from_file and make_public together    *)
(* are the adapter call "put".                                             *)
(***************************************************************************)
AdapterCalls(cs) ==
    LET kept == SelectSeq(cs, LAMBDA c : c # "make_public")
    IN  [i \in DOMAIN kept |-> IF kept[i] = "upload" THEN "put" ELSE kept[i]]

Rank(c) ==
    CASE c \in {"select", "select_all"} -> 1
      [] c = "blob_delete" -> 2
      [] c = "put" -> 3
      [] c \in {"insert", "update", "row_delete"} -> 4

LinearCalls(p) ==
    LET ac == AdapterCalls(calls[p])
    IN  /\ Len(ac) <= 4
        /\ \A i, j \in DOMAIN ac : i < j => Rank(ac[i]) < Rank(ac[j])

C7_RequestsTerminate ==
    /\ [](\A p \in Procs : /\ LinearCalls(p)
                           /\ Done(p) => Status(p) \in {200, 404, 400, 500})
    /\ \A p \in Procs : InFlight(p) ~> Done(p)

C7_Witness ==
    \E p \in Procs : Done(p) /\ Status(p) = 200 /\ Len(AdapterCalls(calls[p])) = 4

(***************************************************************************)
(* C8: a response of format_response is XML exactly when the Accept header *)
(* is the literal application/xml and JSON otherwise; either way it        *)
(* carries the payload and the status code the handler passed.             *)
(***************************************************************************)
Range(f) == {f[i] : i \in DOMAIN f}

\* the text of a row's columns
RowText(r) ==
    { <<"id", ToString(r.id)>>, <<"filename", r.filename>>,
      <<"filesize_bytes", ToString(r.filesize_bytes)>>,
      <<"mime_type", r.mime_type>>, <<"access_url", r.access_url>> }

\* the payload a handler passed, read from an XML body and from a JSON body
DataPayload(data) ==
    {[key |-> f.key, text |-> f.value,
      items |-> [i \in DOMAIN f.items |-> RowText(f.items[i])]] : f \in Range(data)}

XmlPayload(body) ==
    {[key |-> c.tag, text |-> c.text,
      items |-> [i \in DOMAIN c.children |->
                    {<<e.tag, e.text>> : e \in Range(c.children[i].children)}]]
        : c \in Range(body.children)}

JsonPayload(body) ==
    {[key |-> m.key, text |-> m.value,
      items |-> [i \in DOMAIN m.items |-> RowText(m.items[i])]] : m \in body.members}

C8_ContentNegotiation ==
    \A p \in Procs :
        (Done(p) /\ resp[p][1].via = "format_response") =>
            LET r == resp[p][1]
            IN  /\ r.content_type = "application/xml" <=> r.accept = <<"application/xml">>
                /\ r.content_type = "application/xml" =>
                       /\ r.body.root = "response" /\ r.body.members = {}
                       /\ XmlPayload(r.body) = DataPayload(r.data)
                /\ r.content_type # "application/xml" =>
                       /\ r.content_type = "application/json"
                       /\ r.body.root = "" /\ r.body.children = <<>>
                       /\ JsonPayload(r.body) = DataPayload(r.data)
                /\ r.status = r.code

C8_Witness ==
    \E p \in Procs :
        /\ Done(p) /\ req[p].op = "list_images"
        /\ resp[p][1].accept = <<"application/xml">>
        /\ resp[p][1].content_type = "application/xml"
        /\ rows # {}

(***************************************************************************)
(* C9: in Create the blob is uploaded and made public before the row is    *)
(* inserted, and the row holds the URL of that blob; with one request at a *)
(* time, a row this Create added always has its blob, and an insert that   *)
(* raises leaves the uploaded blob and adds no row.                        *)
(***************************************************************************)
IsPrefix(s, t) == Len(s) <= Len(t) /\ \A i \in DOMAIN s : s[i] = t[i]

CreateCalls == <<"upload", "make_public", "insert">>

C9_UploadBeforeInsert ==
    \A p \in Procs :
        (req[p].op = "upload_image" /\ "file" \in DOMAIN req[p].files) =>
            /\ IsPrefix(calls[p], CreateCalls)
            /\ rows # pre[p].rows => calls[p] = CreateCalls
            /\ \A r \in rows \ pre[p].rows :
                   /\ r.filename = File(p).filename
                   /\ r.access_url = PublicUrl(File(p).filename)
                   /\ Fetch(blobs, r.access_url) = {File(p).content}
            /\ (Done(p) /\ Status(p) = 500 /\ calls[p] = CreateCalls) =>
                   /\ rows = pre[p].rows
                   /\ \E b \in BlobsAt(blobs, File(p).filename) : b.content = File(p).content

C9_Witness ==
    \E p \in Procs :
        /\ req[p].op = "upload_image"
        /\ Done(p) /\ Status(p) = 500 /\ calls[p] = CreateCalls

(***************************************************************************)
(* C10: in Replace the calls are made in the order select, delete old      *)
(* blob, upload new blob, make it public, update row; the row changes only *)
(* at the last of them, to the new file's values and URL.  When the upload *)
(* raises after the old blob was deleted, the row is as before and no blob *)
(* is stored under its filename.                                           *)
(***************************************************************************)
ReplaceCalls == <<"select", "blob_delete", "upload", "make_public", "update">>

C10_ReplaceOrder ==
    \A p \in Procs :
        (req[p].op = "update_image" /\ "file" \in DOMAIN req[p].files) =>
            /\ IsPrefix(calls[p], ReplaceCalls)
            /\ rows # pre[p].rows =>
                   /\ calls[p] = ReplaceCalls
                   /\ rows = UpdateRow(pre[p].rows, req[p].image_id, File(p),
                                       PublicUrl(File(p).filename))
            /\ (Done(p) /\ Status(p) = 500 /\ calls[p] = <<"select", "blob_delete", "upload">>) =>
                   /\ rows = pre[p].rows
                   /\ BlobsAt(blobs, RowNow(p).filename) = {}

C10_Witness ==
    \E p \in Procs :
        /\ req[p].op = "update_image"
        /\ Done(p) /\ Status(p) = 500 /\ calls[p] = <<"select", "blob_delete", "upload">>
        /\ BlobsAt(pre[p].blobs, RowBefore(p).filename) # {}

(***************************************************************************)
(* C11: in Delete, when the blob deletion fails the row deletion is not    *)
(* attempted: the request ends with status 500 and the table and the       *)
(* bucket are as they were when the request arrived.  The deletion fails   *)
(* when the bucket holds no blob of the row's filename, or when the call   *)
(* raises for another reason.                                              *)
(***************************************************************************)
DeleteOf(p) ==
    /\ req[p].op = "delete_image"
    /\ RowsWithId(pre[p].rows, req[p].image_id) # {}

C11_FailedBlobDeleteKeepsRow ==
    \A p \in Procs :
        DeleteOf(p) =>
            /\ BlobsAt(pre[p].blobs, RowBefore(p).filename) = {} =>
                   /\ \A i \in DOMAIN calls[p] : calls[p][i] # "row_delete"
                   /\ rows = pre[p].rows /\ blobs = pre[p].blobs
                   /\ Done(p) => Status(p) = 500
            /\ (Done(p) /\ Status(p) = 500 /\ calls[p] = <<"select", "blob_delete">>) =>
                   rows = pre[p].rows /\ blobs = pre[p].blobs

C11_Witness ==
    \E p \in Procs :
        /\ DeleteOf(p) /\ Done(p) /\ Status(p) = 500
        /\ calls[p] = <<"select", "blob_delete">>
        /\ BlobsAt(pre[p].blobs, RowBefore(p).filename) = {}

(***************************************************************************)
(* C12, as stated: a Replace that names an id no row has and carries no    *)
(* file part ends with 404.                                                *)
(***************************************************************************)
UnknownIdNoFile(p) ==
    /\ req[p].op = "update_image"
    /\ "file" \notin DOMAIN req[p].files
    /\ RowsWithId(pre[p].rows, req[p].image_id) = {}

C12_LookupFirst ==
    \A p \in Procs : (Done(p) /\ UnknownIdNoFile(p)) => Status(p) = 404

(***************************************************************************)
(* C12, amended: Replace tests the file part before it looks the row up:   *)
(* a Replace that names an id no row has and carries no file part ends     *)
(* with 400, and the select is never made.                                 *)
(***************************************************************************)
C12_ValidationFirst ==
    \A p \in Procs :
        (pc[p] # "idle" /\ UnknownIdNoFile(p)) =>
            /\ Done(p) /\ Status(p) = 400
            /\ \A i \in DOMAIN calls[p] : calls[p][i] # "select"

C12_Witness ==
    \E p \in Procs : Done(p) /\ UnknownIdNoFile(p) /\ rows # {}

(***************************************************************************)
(* C13: every database connection a request opens is closed before the     *)
(* request returns: whenever no request is in flight, no connection is     *)
(* open.  Refuted: the 404 returns of update_image and delete_image, and   *)
(* every exception after get_db_connection(), leave the connection open.   *)
(***************************************************************************)
C13_ConnectionsReleased == Quiescent => conn = 0

(***************************************************************************)
(* C14: a remote call that fails ends the request: the step on which the   *)
(* exception leaves the handler changes neither the table nor the bucket,  *)
(* records that one call, and answers 500; a finished request makes no     *)
(* further call.                                                           *)
(***************************************************************************)
Failed(p) == resp[p] # <<>> /\ resp[p][1].via = "exception"

C14_FailureEndsRequest ==
    [][\A p \in Procs :
         /\ (resp[p] = <<>> /\ resp'[p] # <<>> /\ resp'[p][1].via = "exception") =>
                /\ rows' = rows /\ blobs' = blobs
                /\ calls'[p] = Append(calls[p], pc[p])
                /\ \A i \in DOMAIN calls[p] : calls[p][i] # pc[p]
                /\ pc'[p] = "done" /\ resp'[p][1].status = 500
         /\ Failed(p) =>
                /\ pc[p] = "done"
                /\ calls'[p] = calls[p] \/ pc'[p] = "idle"
                /\ pc'[p] # pc[p] => rows' = rows /\ blobs' = blobs]_vars

C14_Witness ==
    \E p \in Procs :
        /\ Failed(p) /\ req[p].op = "upload_image"
        /\ calls[p] = <<"upload", "make_public", "insert">>
        /\ BlobsAt(blobs, File(p).filename) # {}

(***************************************************************************)
(* C17: a Delete of a row that had its blob and that ends with a failure   *)
(* leaves the row only if the blob is still there.  Refuted: the blob is   *)
(* deleted before the row, so a row deletion that raises leaves the row    *)
(* without its blob.                                                       *)
(***************************************************************************)
C17_FailedDeleteNoDangling ==
    \A p \in Procs :
        (/\ DeleteOf(p) /\ Done(p) /\ Status(p) = 500
         /\ BlobsAt(pre[p].blobs, RowBefore(p).filename) # {}) =>
            \A r \in RowsWithId(rows, req[p].image_id) : BlobsAt(blobs, r.filename) # {}

(***************************************************************************)
(* C15: when two concurrent Replace or Delete requests on one id have read *)
(* the same filename and one of them has deleted the blob, the other one,  *)
(* whose blob deletion finds no blob, does not end in a failure but goes   *)
(* on.  Refuted: blob.delete() raises NotFound and nothing catches it.     *)
(***************************************************************************)
SameRecord(p, q) ==
    /\ p # q
    /\ req[p].op \in {"update_image", "delete_image"}
    /\ req[q].op \in {"update_image", "delete_image"}
    /\ req[p].image_id = req[q].image_id

C15_NotFoundTolerated ==
    \A p, q \in Procs :
        (/\ SameRecord(p, q)
         /\ old[p] # <<>> /\ old[p] = old[q]
         /\ Len(calls[q]) >= 3 /\ calls[q][2] = "blob_delete"
         /\ calls[p] = <<"select", "blob_delete">>) =>
            ~Failed(p)

(***************************************************************************)
(* C16: when two concurrent Replace and/or Delete requests on one id, a    *)
(* row that had its blob, have both finished, the row - if it still exists *)
(* - has a blob stored under its filename and holds the values written by  *)
(* a Replace that updated it.  Refuted: a Replace may delete the blob the  *)
(* other Replace has just uploaded under the same filename, and the other  *)
(* Replace then commits its row last.                                      *)
(***************************************************************************)
Writers(p, q) ==
    {x \in {p, q} : /\ req[x].op = "update_image"
                    /\ \E i \in DOMAIN calls[x] : calls[x][i] = "update"}

C16_RaceLeavesRecordWithBlob ==
    \A p, q \in Procs :
        (/\ SameRecord(p, q) /\ Done(p) /\ Done(q)
         /\ RowsWithId(pre[p].rows, req[p].image_id) # {}
         /\ BlobsAt(pre[p].blobs, RowBefore(p).filename) # {}) =>
            \A r \in RowsWithId(rows, req[p].image_id) :
                /\ BlobsAt(blobs, r.filename) # {}
                /\ Writers(p, q) # {} =>
                       \E x \in Writers(p, q) :
                           {r} = UpdateRow({r}, r.id, File(x), PublicUrl(File(x).filename))

(***************************************************************************)
(* C18: ids are unique and never change.  A step of a Replace of id i      *)
(* keeps the ids of the table and every row but the one with id i; a step  *)
(* of a Delete of id i removes no row but the one with id i and changes    *)
(* none; a step of a List changes neither the table nor the bucket, and    *)
(* its response holds every row of the table once; a step of a Create      *)
(* keeps every row and adds only rows with new ids.                        *)
(***************************************************************************)
IdsOf(rs) == {r.id : r \in rs}

\* the request a step of slot p belongs to
ReqOf(p) == IF req[p].op = "none" THEN req'[p] ELSE req[p]

C18_RowFrame ==
    /\ [](\A r1, r2 \in rows : r1.id = r2.id => r1 = r2)
    /\ [][\A p \in Procs :
            pc'[p] # pc[p] =>
                /\ ReqOf(p).op = "update_image" =>
                       /\ IdsOf(rows') = IdsOf(rows)
                       /\ \A r \in rows : r.id # ReqOf(p).image_id => r \in rows'
                /\ ReqOf(p).op = "delete_image" =>
                       /\ rows' \subseteq rows
                       /\ \A r \in rows \ rows' : r.id = ReqOf(p).image_id
                /\ ReqOf(p).op = "list_images" =>
                       /\ rows' = rows /\ blobs' = blobs
                       /\ (pc'[p] = "done" /\ resp'[p][1].via = "format_response") =>
                              LET items == resp'[p][1].data[1].items
                              IN  Range(items) = rows /\ Len(items) = Cardinality(rows)
                /\ ReqOf(p).op = "upload_image" =>
                       /\ rows \subseteq rows'
                       /\ \A r \in rows' \ rows : r.id \notin IdsOf(rows)]_vars

C18_Witness ==
    \E p \in Procs :
        /\ Succeeded(p, "update_image")
        /\ Cardinality(rows) >= 2

====
